---- MODULE Spec2Model ----
(***************************************************************************)
(* A model of the logistics pipeline: custom_queue.Queue (a list guarded   *)
(* by a threading.Lock), the status state machine next_status, the         *)
(* producer generate_orders and the consumer process_orders.               *)
(*                                                                         *)
(* Threads are interleaved at the granularity of the source lines that     *)
(* touch shared state.  A time.sleep is a step of its own that may take    *)
(* any amount of time, so every choice of delays (zero included) is an     *)
(* interleaving of the model.                                              *)
(***************************************************************************)
EXTENDS Integers, Sequences, FiniteSets, TLC

VARIABLES
    buffer,        \* Queue._buffer: the Python list, buffer[1] is list index 0
    lock,          \* Queue._lock: the thread holding it, or NoThread
    pc,            \* thread -> the place in the code where the thread stands
    cont,          \* thread -> where the Queue method in progress returns to
    arg,           \* thread -> the `value` parameter of the enqueue in progress
    ret,           \* thread -> the value the last Queue method returned
    source,        \* the list of records generate_orders iterates (ORDERS)
    heap,          \* order reference -> the order dict built by generate_orders
    idx,           \* generate_orders: number of records of ORDERS iterated so far
    order,         \* process_orders: the local `order`
    processed,     \* process_orders: the local `processed`
    total_orders,  \* the total_orders argument of both thread functions
    sent,          \* client thread -> number of enqueue calls it has issued
    enqueued,      \* history: the items of completed enqueues, in order
    dequeued,      \* history: the items returned by completed dequeues, in order
    completed,     \* history: the orders counted as processed, in order
    visited,       \* history: order reference -> the statuses it has taken
    ns_log         \* history: the calls of next_status made by the driver

vars == <<buffer, lock, pc, cont, arg, ret, source, heap, idx, order, processed,
          total_orders, sent, enqueued, dequeued, completed, visited, ns_log>>

pipeVars == <<source, heap, idx, order, processed, total_orders, completed, visited>>

(***************************************************************************)
(* Bounds of the model.                                                    *)
(***************************************************************************)
MaxPerProducer == 2     \* enqueue calls issued by each of several client producers
MaxSingleProducer == 3  \* enqueue calls issued by a client producer that is alone
MaxCalls == 3           \* next_status calls made by the driver
MaxTotalOrders == 3     \* largest total_orders argument tried with each source

(***************************************************************************)
(* Python values.                                                          *)
(***************************************************************************)
NoThread == "NoThread"
None == [kind |-> "None", val |-> 0]
Value(x) == [kind |-> "value", val |-> x]
IsNone(r) == r.kind = "None"

Threads == DOMAIN pc

(***************************************************************************)
(* custom_queue.Queue                                                      *)
(***************************************************************************)

\* threading.Lock: `with self._lock` enters only when the lock is free.
LockFreeAlways(t) == TRUE
LockAvailable(t) == lock = NoThread

\* self._buffer.insert(0, value)
InsertAtTail(b, v) == b \o <<v>>
ListInsertFront(b, v) == <<v>> \o b

\* self._buffer.pop(): the last element of the list, which is removed
PopKeepsItem(b) == b
ListAfterPop(b) == SubSeq(b, 1, Len(b) - 1)
ListPopFirst(b) == b[1]
ListPopValue(b) == b[Len(b)]

\* Queue._is_empty_unsafe
NeverEmpty(b) == FALSE
is_empty_unsafe(b) == Len(b) = 0

\* A call of a Queue method: the method has no return value until it returns.
Call(t, entry, back) ==
    /\ pc' = [pc EXCEPT ![t] = entry]
    /\ cont' = [cont EXCEPT ![t] = back]
    /\ ret' = [ret EXCEPT ![t] = None]

\* Queue.enqueue, line 17: with self._lock
EnqAcquire(t) ==
    /\ pc[t] = "enq_lock"
    /\ LockAvailable(t)
    /\ lock' = t
    /\ pc' = [pc EXCEPT ![t] = "enq_insert"]
    /\ UNCHANGED <<buffer, cont, arg, ret, enqueued, dequeued, sent, ns_log>>
    /\ UNCHANGED pipeVars

\* Queue.enqueue, line 18
EnqInsert(t) ==
    /\ pc[t] = "enq_insert"
    /\ buffer' = ListInsertFront(buffer, arg[t])
    /\ pc' = [pc EXCEPT ![t] = "enq_unlock"]
    /\ UNCHANGED <<lock, cont, arg, ret, enqueued, dequeued, sent, ns_log>>
    /\ UNCHANGED pipeVars

\* Queue.enqueue: the with block is left, the lock released, the call returns
EnqRelease(t) ==
    /\ pc[t] = "enq_unlock"
    /\ lock' = NoThread
    /\ ret' = [ret EXCEPT ![t] = None]
    /\ enqueued' = Append(enqueued, arg[t])
    /\ pc' = [pc EXCEPT ![t] = cont[t]]
    /\ UNCHANGED <<buffer, cont, arg, dequeued, sent, ns_log>>
    /\ UNCHANGED pipeVars

\* Queue.dequeue, line 22: with self._lock
DeqAcquire(t) ==
    /\ pc[t] = "deq_lock"
    /\ LockAvailable(t)
    /\ lock' = t
    /\ pc' = [pc EXCEPT ![t] = "deq_test"]
    /\ UNCHANGED <<buffer, cont, arg, ret, enqueued, dequeued, sent, ns_log>>
    /\ UNCHANGED pipeVars

\* Queue.dequeue, line 23: if not self._is_empty_unsafe()
DeqTest(t) ==
    /\ pc[t] = "deq_test"
    /\ pc' = [pc EXCEPT ![t] =
                 IF is_empty_unsafe(buffer) THEN "deq_none" ELSE "deq_pop"]
    /\ UNCHANGED <<buffer, lock, cont, arg, ret, enqueued, dequeued, sent, ns_log>>
    /\ UNCHANGED pipeVars

\* Queue.dequeue, lines 24-25: return self._buffer.pop(), or return None.
\* list.pop raises IndexError on an empty list, which leaves the with block
\* (releasing the lock) and ends the thread.
DeqReturn(t) ==
    /\ pc[t] \in {"deq_pop", "deq_none"}
    /\ IF pc[t] = "deq_none"
         THEN /\ ret' = [ret EXCEPT ![t] = None]
              /\ pc' = [pc EXCEPT ![t] = "deq_unlock"]
              /\ UNCHANGED <<buffer, lock>>
         ELSE IF Len(buffer) = 0
         THEN /\ pc' = [pc EXCEPT ![t] = "crashed"]
              /\ lock' = IF lock = t THEN NoThread ELSE lock
              /\ UNCHANGED <<buffer, ret>>
         ELSE /\ ret' = [ret EXCEPT ![t] = Value(ListPopValue(buffer))]
              /\ buffer' = ListAfterPop(buffer)
              /\ pc' = [pc EXCEPT ![t] = "deq_unlock"]
              /\ UNCHANGED lock
    /\ UNCHANGED <<cont, arg, enqueued, dequeued, sent, ns_log>>
    /\ UNCHANGED pipeVars

DeqReturnsHoldingLock(t) ==
    /\ pc[t] = "deq_unlock"
    /\ dequeued' = IF IsNone(ret[t]) THEN dequeued ELSE Append(dequeued, ret[t].val)
    /\ pc' = [pc EXCEPT ![t] = cont[t]]
    /\ UNCHANGED <<buffer, lock, cont, arg, ret, enqueued, sent, ns_log>>
    /\ UNCHANGED pipeVars

\* Queue.dequeue: the with block is left, the lock released, the call returns
DeqRelease(t) ==
    /\ pc[t] = "deq_unlock"
    /\ lock' = NoThread
    /\ dequeued' = IF IsNone(ret[t]) THEN dequeued ELSE Append(dequeued, ret[t].val)
    /\ pc' = [pc EXCEPT ![t] = cont[t]]
    /\ UNCHANGED <<buffer, cont, arg, ret, enqueued, sent, ns_log>>
    /\ UNCHANGED pipeVars

\* Queue.is_empty, line 29: with self._lock
EmpAcquire(t) ==
    /\ pc[t] = "emp_lock"
    /\ LockAvailable(t)
    /\ lock' = t
    /\ pc' = [pc EXCEPT ![t] = "emp_test"]
    /\ UNCHANGED <<buffer, cont, arg, ret, enqueued, dequeued, sent, ns_log>>
    /\ UNCHANGED pipeVars

\* Queue.is_empty, line 30: return self._is_empty_unsafe()
EmpTest(t) ==
    /\ pc[t] = "emp_test"
    /\ ret' = [ret EXCEPT ![t] = Value(is_empty_unsafe(buffer))]
    /\ pc' = [pc EXCEPT ![t] = "emp_unlock"]
    /\ UNCHANGED <<buffer, lock, cont, arg, enqueued, dequeued, sent, ns_log>>
    /\ UNCHANGED pipeVars

\* Queue.is_empty: the with block is left, the lock released, the call returns
EmpRelease(t) ==
    /\ pc[t] = "emp_unlock"
    /\ lock' = NoThread
    /\ pc' = [pc EXCEPT ![t] = cont[t]]
    /\ UNCHANGED <<buffer, cont, arg, ret, enqueued, dequeued, sent, ns_log>>
    /\ UNCHANGED pipeVars

\* Queue.size, line 34: with self._lock
SizeAcquire(t) ==
    /\ pc[t] = "size_lock"
    /\ LockAvailable(t)
    /\ lock' = t
    /\ pc' = [pc EXCEPT ![t] = "size_len"]
    /\ UNCHANGED <<buffer, cont, arg, ret, enqueued, dequeued, sent, ns_log>>
    /\ UNCHANGED pipeVars

\* Queue.size, line 35: return len(self._buffer)
SizeLen(t) ==
    /\ pc[t] = "size_len"
    /\ ret' = [ret EXCEPT ![t] = Value(Len(buffer))]
    /\ pc' = [pc EXCEPT ![t] = "size_unlock"]
    /\ UNCHANGED <<buffer, lock, cont, arg, enqueued, dequeued, sent, ns_log>>
    /\ UNCHANGED pipeVars

\* Queue.size: the with block is left, the lock released, the call returns
SizeRelease(t) ==
    /\ pc[t] = "size_unlock"
    /\ lock' = NoThread
    /\ pc' = [pc EXCEPT ![t] = cont[t]]
    /\ UNCHANGED <<buffer, cont, arg, ret, enqueued, dequeued, sent, ns_log>>
    /\ UNCHANGED pipeVars

\* One step of the Queue method that thread t is executing.
EnqueueStep(t) == EnqAcquire(t) \/ EnqInsert(t) \/ EnqRelease(t)
DequeueStep(t) == DeqAcquire(t) \/ DeqTest(t) \/ DeqReturn(t) \/ DeqRelease(t)
IsEmptyStep(t) == EmpAcquire(t) \/ EmpTest(t) \/ EmpRelease(t)
SizeStep(t) == SizeAcquire(t) \/ SizeLen(t) \/ SizeRelease(t)
QueueStep(t) == EnqueueStep(t) \/ DequeueStep(t) \/ IsEmptyStep(t) \/ SizeStep(t)

\* The places of the code where self._buffer is read or written.
BufferSection ==
    {"enq_insert", "enq_unlock", "deq_test", "deq_pop", "deq_none", "deq_unlock",
     "emp_test", "emp_unlock", "size_len", "size_unlock"}

(***************************************************************************)
(* logistics_tracker: the status state machine                             *)
(***************************************************************************)

\* Python's None where a status is expected.
NoStatus == "None"

STATUS_TRANSITIONS ==
    [s \in {"Not Shipped", "In-Transit", "Waiting to Offload", "Offloaded"} |->
        CASE s = "Not Shipped"        -> "In-Transit"
          [] s = "In-Transit"         -> "Waiting to Offload"
          [] s = "Waiting to Offload" -> "Offloaded"
          [] s = "Offloaded"          -> NoStatus]

Return(v) == [kind |-> "return", val |-> v]
Raise(e) == [kind |-> "raise", val |-> e]

NextStatusWraps(current) ==
    IF current \notin DOMAIN STATUS_TRANSITIONS
      THEN Raise("ValueError")
      ELSE IF current = "Offloaded" THEN Return("Not Shipped")
      ELSE Return(STATUS_TRANSITIONS[current])

NextStatusLenient(current) ==
    IF current \notin DOMAIN STATUS_TRANSITIONS
      THEN Return(NoStatus)
      ELSE Return(STATUS_TRANSITIONS[current])

\* next_status(current): the outcome of the call, a return value or an exception
next_status(current) ==
    IF current \notin DOMAIN STATUS_TRANSITIONS
      THEN Raise("ValueError")
      ELSE Return(STATUS_TRANSITIONS[current])

(***************************************************************************)
(* logistics_tracker: the orders, the producer and the consumer            *)
(***************************************************************************)
ORDERS ==
    << [order_id |-> "68862131", destination |-> "Cairo"],
       [order_id |-> "68862132", destination |-> "Dubai"],
       [order_id |-> "68862133", destination |-> "Jeddah"],
       [order_id |-> "68862134", destination |-> "Ryadh"],
       [order_id |-> "68862135", destination |-> "Luxor"] >>

NewOrderInTransit(order_data) ==
    [order_id |-> order_data.order_id, destination |-> order_data.destination,
     status |-> "In-Transit"]

\* {**order_data, "status": "Not Shipped"}
NewOrder(order_data) ==
    [order_id |-> order_data.order_id, destination |-> order_data.destination,
     status |-> "Not Shipped"]

\* generate_orders, lines 70-74: the next record of the list becomes an order
\* (a new dict, referred to by its place in the heap) and q.enqueue(order) is
\* called; line 77 when the list is exhausted.
GenLoop ==
    /\ pc["G"] = "gen_loop"
    /\ IF idx < Len(source)
         THEN /\ idx' = idx + 1
              /\ heap' = Append(heap, NewOrder(source[idx + 1]))
              /\ visited' = Append(visited, <<NewOrder(source[idx + 1]).status>>)
              /\ arg' = [arg EXCEPT !["G"] = Len(heap) + 1]
              /\ Call("G", "enq_lock", "gen_sleep")
         ELSE /\ pc' = [pc EXCEPT !["G"] = "done"]
              /\ UNCHANGED <<idx, heap, visited, arg, cont, ret>>
    /\ UNCHANGED <<buffer, lock, source, order, processed, total_orders, sent,
                   enqueued, dequeued, completed, ns_log>>

\* generate_orders, line 75: time.sleep(1)
GenSleep ==
    /\ pc["G"] = "gen_sleep"
    /\ pc' = [pc EXCEPT !["G"] = "gen_loop"]
    /\ UNCHANGED <<buffer, lock, cont, arg, ret, enqueued, dequeued, sent, ns_log>>
    /\ UNCHANGED pipeVars

GenStep == GenLoop \/ GenSleep

\* process_orders, lines 92-98: time.sleep(2); processed = 0
ProcStart ==
    /\ pc["P"] = "proc_start"
    /\ processed' = 0
    /\ pc' = [pc EXCEPT !["P"] = "proc_loop"]
    /\ UNCHANGED <<buffer, lock, cont, arg, ret, enqueued, dequeued, sent, ns_log>>
    /\ UNCHANGED <<source, heap, idx, order, total_orders, completed, visited>>

ProcLoopOffByOne ==
    /\ pc["P"] = "proc_loop"
    /\ IF processed <= total_orders
         THEN Call("P", "emp_lock", "proc_check")
         ELSE /\ pc' = [pc EXCEPT !["P"] = "done"]
              /\ UNCHANGED <<cont, ret>>
    /\ UNCHANGED <<buffer, lock, arg, enqueued, dequeued, sent, ns_log>>
    /\ UNCHANGED pipeVars

\* process_orders, lines 100-101: while processed < total_orders, and the
\* call of q.is_empty(); line 121 when the loop ends.
ProcLoop ==
    /\ pc["P"] = "proc_loop"
    /\ IF processed < total_orders
         THEN Call("P", "emp_lock", "proc_check")
         ELSE /\ pc' = [pc EXCEPT !["P"] = "done"]
              /\ UNCHANGED <<cont, ret>>
    /\ UNCHANGED <<buffer, lock, arg, enqueued, dequeued, sent, ns_log>>
    /\ UNCHANGED pipeVars

ProcCheckExitsOnEmpty ==
    /\ pc["P"] = "proc_check"
    /\ IF ~ret["P"].val
         THEN Call("P", "deq_lock", "proc_picked")
         ELSE /\ pc' = [pc EXCEPT !["P"] = "done"]
              /\ UNCHANGED <<cont, ret>>
    /\ UNCHANGED <<buffer, lock, arg, enqueued, dequeued, sent, ns_log>>
    /\ UNCHANGED pipeVars

\* process_orders, lines 101-102 and 117-119: if not q.is_empty() the call of
\* q.dequeue(), else time.sleep(0.5)
ProcCheck ==
    /\ pc["P"] = "proc_check"
    /\ IF ~ret["P"].val
         THEN Call("P", "deq_lock", "proc_picked")
         ELSE /\ pc' = [pc EXCEPT !["P"] = "proc_poll"]
              /\ UNCHANGED <<cont, ret>>
    /\ UNCHANGED <<buffer, lock, arg, enqueued, dequeued, sent, ns_log>>
    /\ UNCHANGED pipeVars

\* process_orders, line 119: time.sleep(0.5) is over
ProcPoll ==
    /\ pc["P"] = "proc_poll"
    /\ pc' = [pc EXCEPT !["P"] = "proc_loop"]
    /\ UNCHANGED <<buffer, lock, cont, arg, ret, enqueued, dequeued, sent, ns_log>>
    /\ UNCHANGED pipeVars

\* process_orders, lines 102-104: order = q.dequeue(), then
\* order['order_id'] in the print: subscripting None raises TypeError, which
\* ends the thread.
ProcPicked ==
    /\ pc["P"] = "proc_picked"
    /\ order' = ret["P"]
    /\ pc' = [pc EXCEPT !["P"] = IF IsNone(ret["P"]) THEN "crashed" ELSE "proc_while"]
    /\ UNCHANGED <<buffer, lock, cont, arg, ret, enqueued, dequeued, sent, ns_log>>
    /\ UNCHANGED <<source, heap, idx, processed, total_orders, completed, visited>>

\* The outcome of lines 108-109 on the order dict o: new_status =
\* next_status(order["status"]); order["status"] = new_status
AdvanceSkipsStage(o) == [o EXCEPT !.status = "Offloaded"]
AdvanceOrder(o) == [o EXCEPT !.status = next_status(o.status).val]

\* Line 107: while order["status"] != "Offloaded"
StageLoopNever(o) == FALSE
StageLoopForever(o) == TRUE
StageLoopContinues(o) == o.status # "Offloaded"

\* process_orders, lines 107-110: the test of the while loop and one pass of
\* its body up to the sleep; an exception of next_status ends the thread.
\* Lines 113-115 when the loop ends: processed += 1.
ProcWhile ==
    /\ pc["P"] = "proc_while"
    /\ LET ref == order.val IN
       IF StageLoopContinues(heap[ref])
         THEN IF next_status(heap[ref].status).kind = "raise"
                THEN /\ pc' = [pc EXCEPT !["P"] = "crashed"]
                     /\ UNCHANGED <<heap, visited, processed, completed>>
                ELSE /\ heap' = [heap EXCEPT ![ref] = AdvanceOrder(heap[ref])]
                     /\ visited' = [visited EXCEPT ![ref] =
                                       Append(@, AdvanceOrder(heap[ref]).status)]
                     /\ pc' = [pc EXCEPT !["P"] = "proc_work"]
                     /\ UNCHANGED <<processed, completed>>
         ELSE /\ processed' = processed + 1
              /\ completed' = Append(completed, ref)
              /\ pc' = [pc EXCEPT !["P"] = "proc_loop"]
              /\ UNCHANGED <<heap, visited>>
    /\ UNCHANGED <<buffer, lock, cont, arg, ret, enqueued, dequeued, sent, ns_log>>
    /\ UNCHANGED <<source, idx, order, total_orders>>

ProcWorkLeavesOrder ==
    /\ pc["P"] = "proc_work"
    /\ pc' = [pc EXCEPT !["P"] = "proc_loop"]
    /\ UNCHANGED <<buffer, lock, cont, arg, ret, enqueued, dequeued, sent, ns_log>>
    /\ UNCHANGED pipeVars

\* process_orders, line 111: time.sleep(1.5) is over
ProcWork ==
    /\ pc["P"] = "proc_work"
    /\ pc' = [pc EXCEPT !["P"] = "proc_while"]
    /\ UNCHANGED <<buffer, lock, cont, arg, ret, enqueued, dequeued, sent, ns_log>>
    /\ UNCHANGED pipeVars

ProcStep == ProcStart \/ ProcLoop \/ ProcCheck \/ ProcPoll \/ ProcPicked
            \/ ProcWhile \/ ProcWork

(***************************************************************************)
(* Client threads calling the methods of one Queue in any order: the       *)
(* producers call enqueue with fresh items, the consumers call dequeue,    *)
(* is_empty and size.                                                      *)
(***************************************************************************)
ClientProducers == {"prod1", "prod2"}
ClientConsumers == {"cons1", "cons2"}

EnqueueQuota ==
    IF Cardinality(Threads \cap ClientProducers) = 1
      THEN MaxSingleProducer ELSE MaxPerProducer

ClientEnqueue(t) ==
    /\ t \in ClientProducers
    /\ pc[t] = "idle"
    /\ sent[t] < EnqueueQuota
    /\ sent' = [sent EXCEPT ![t] = sent[t] + 1]
    /\ arg' = [arg EXCEPT ![t] = <<t, sent[t] + 1>>]
    /\ Call(t, "enq_lock", "idle")
    /\ UNCHANGED <<buffer, lock, enqueued, dequeued, ns_log>>
    /\ UNCHANGED pipeVars

ClientDequeue(t) ==
    /\ t \in ClientConsumers
    /\ pc[t] = "idle"
    /\ Call(t, "deq_lock", "idle")
    /\ UNCHANGED <<buffer, lock, arg, enqueued, dequeued, sent, ns_log>>
    /\ UNCHANGED pipeVars

ClientIsEmpty(t) ==
    /\ t \in ClientConsumers
    /\ pc[t] = "idle"
    /\ Call(t, "emp_lock", "idle")
    /\ UNCHANGED <<buffer, lock, arg, enqueued, dequeued, sent, ns_log>>
    /\ UNCHANGED pipeVars

ClientSize(t) ==
    /\ t \in ClientConsumers
    /\ pc[t] = "idle"
    /\ Call(t, "size_lock", "idle")
    /\ UNCHANGED <<buffer, lock, arg, enqueued, dequeued, sent, ns_log>>
    /\ UNCHANGED pipeVars

ClientStep(t) ==
    \/ ClientEnqueue(t) \/ ClientDequeue(t) \/ ClientIsEmpty(t) \/ ClientSize(t)

\* Queue.__init__ and the locals of threads that have not started.
InitFor(threads, records, total) ==
    /\ buffer = <<>>
    /\ lock = NoThread
    /\ pc = [t \in threads |->
               IF t = "G" THEN "gen_loop" ELSE IF t = "P" THEN "proc_start" ELSE "idle"]
    /\ cont = [t \in threads |-> "idle"]
    /\ arg = [t \in threads |-> None]
    /\ ret = [t \in threads |-> None]
    /\ source = records
    /\ heap = <<>>
    /\ idx = 0
    /\ order = None
    /\ processed = 0
    /\ total_orders = total
    /\ sent = [t \in threads |-> 0]
    /\ enqueued = <<>>
    /\ dequeued = <<>>
    /\ completed = <<>>
    /\ visited = <<>>
    /\ ns_log = <<>>

\* The state at start with the dataset of the module and total = len(ORDERS).
InitWith(threads) == InitFor(threads, ORDERS, Len(ORDERS))

\* Two producers and two consumers on one Queue.
InitQ == InitWith(ClientProducers \cup ClientConsumers)
NextQ == \E t \in Threads : QueueStep(t) \/ ClientStep(t)
SpecQ == InitQ /\ [][NextQ]_vars

\* One producer and two consumers on one Queue.
InitFIFO == InitWith({"prod1"} \cup ClientConsumers)
SpecFIFO == InitFIFO /\ [][NextQ]_vars

\* The pipeline of __main__: the generator thread G and the processor thread P
\* on one Queue, total_orders = len(ORDERS).
Init == InitWith({"G", "P"})
PipeQueueStep(t) == EnqueueStep(t) \/ DequeueStep(t) \/ IsEmptyStep(t)
Next == GenStep \/ ProcStep \/ \E t \in Threads : PipeQueueStep(t)
Spec == Init /\ [][Next]_vars

\* The pipeline with one more consumer of the same Queue.
InitRace == InitWith({"G", "P", "cons1"})
ConsumerStep(t) == ClientDequeue(t) \/ ClientIsEmpty(t) \/ ClientSize(t)
NextRace == GenStep \/ ProcStep \/ \E t \in Threads : QueueStep(t) \/ ConsumerStep(t)
SpecRace == InitRace /\ [][NextRace]_vars

\* The pipeline under fair scheduling: a thread that can take a step of its
\* own code eventually takes it, and a thread waiting for the lock eventually
\* gets it when the lock is released again and again.
Fairness ==
    /\ WF_vars(GenStep)
    /\ WF_vars(ProcStep)
    /\ \A t \in {"G", "P"} : SF_vars(PipeQueueStep(t))
LiveSpec == Init /\ [][Next]_vars /\ Fairness

\* The two thread functions started on a dataset that holds the first n
\* records of ORDERS (none of them when n = 0) with any total_orders argument,
\* under fair scheduling.
InitInputs ==
    \E n \in 0..Len(ORDERS), total \in 0..MaxTotalOrders :
        InitFor({"G", "P"}, SubSeq(ORDERS, 1, n), total)
SpecInputs == InitInputs /\ [][Next]_vars /\ Fairness

\* The pipeline with one more thread that enqueues, through Queue.enqueue, one
\* order dict whose status is none of the four statuses, under fair scheduling.
ForeignStatuses == {"Delivered", "offloaded", NoStatus}

EnqueueForeignOrder(t) ==
    /\ t \in ClientProducers
    /\ pc[t] = "idle"
    /\ sent[t] = 0
    /\ sent' = [sent EXCEPT ![t] = sent[t] + 1]
    /\ \E s \in ForeignStatuses :
          /\ heap' = Append(heap, [order_id |-> "foreign", destination |-> "foreign",
                                   status |-> s])
          /\ visited' = Append(visited, <<s>>)
    /\ arg' = [arg EXCEPT ![t] = Len(heap) + 1]
    /\ Call(t, "enq_lock", "idle")
    /\ UNCHANGED <<buffer, lock, source, idx, order, processed, total_orders,
                   enqueued, dequeued, completed, ns_log>>

InitForeign == InitWith({"G", "P", "prod1"})
NextForeign ==
    GenStep \/ ProcStep \/ \E t \in Threads : PipeQueueStep(t) \/ EnqueueForeignOrder(t)
\* A Queue method the second producer has entered is carried through.
FairnessForeign == Fairness /\ SF_vars(PipeQueueStep("prod1"))
SpecForeign == InitForeign /\ [][NextForeign]_vars /\ FairnessForeign

\* A driver that calls next_status on recognized and unrecognized values.
StatusInputs ==
    {"Not Shipped", "In-Transit", "Waiting to Offload", "Offloaded",
     "Delivered", "offloaded", ""}

NextStatusCall ==
    /\ Len(ns_log) < MaxCalls
    /\ \E s \in StatusInputs :
          ns_log' = Append(ns_log, [current |-> s, outcome |-> next_status(s)])
    /\ UNCHANGED <<buffer, lock, pc, cont, arg, ret, enqueued, dequeued, sent>>
    /\ UNCHANGED pipeVars

InitNS == InitWith({})
SpecNS == InitNS /\ [][NextStatusCall]_vars

(***************************************************************************)
(* The properties checked.                                                 *)
(***************************************************************************)
IsPrefix(s, t) == Len(s) <= Len(t) /\ SubSeq(t, 1, Len(s)) = s
Range(s) == {s[i] : i \in 1..Len(s)}
NoRepeats(s) == \A i, j \in 1..Len(s) : s[i] = s[j] => i = j

\* C1: with a single producer, the items returned by the dequeues (None
\* results ignored) are, in order, a prefix of the items enqueued; so when as
\* many items were dequeued as enqueued, the two sequences are equal.
C1_FIFO ==
    /\ IsPrefix(dequeued, enqueued)
    /\ Len(dequeued) = Len(enqueued) => dequeued = enqueued

\* All the producer's items were enqueued and then dequeued.
C1_Witness ==
    /\ Len(enqueued) = MaxSingleProducer
    /\ Len(dequeued) = MaxSingleProducer

\* C2: with several producers and consumers, what size() returns is the number
\* of completed enqueues minus the number of completed dequeues that returned
\* an item, and so is the length of the buffer whenever no method is inside
\* it; no item is lost, none is returned twice, and no more items are
\* dequeued than were enqueued.
C2_ConcurrentSafety ==
    /\ \A t \in Threads :
          pc[t] = "size_unlock" => ret[t].val = Len(enqueued) - Len(dequeued)
    /\ lock = NoThread => Len(buffer) = Len(enqueued) - Len(dequeued)
    /\ lock = NoThread => Range(enqueued) = Range(dequeued) \cup Range(buffer)
    /\ NoRepeats(dequeued)
    /\ Range(dequeued) \subseteq Range(enqueued)
    /\ Len(dequeued) <= Len(enqueued)

\* size() returns 2 after four enqueues and two dequeues have completed.
C2_Witness ==
    \E t \in Threads :
        /\ pc[t] = "size_unlock"
        /\ ret[t].val = 2
        /\ Len(enqueued) = 2 * MaxPerProducer
        /\ Len(dequeued) = 2 * MaxPerProducer - 2

\* C3: a thread that stands where a Queue method reads or writes the list
\* holds the lock, so there is at most one such thread; and what dequeue's
\* emptiness test found still holds when it pops or returns None.
C3_MutualExclusion ==
    /\ \A t \in Threads : pc[t] \in BufferSection => lock = t
    /\ Cardinality({t \in Threads : pc[t] \in BufferSection}) <= 1
    /\ \A t \in Threads : pc[t] = "deq_pop" => Len(buffer) > 0
    /\ \A t \in Threads : pc[t] = "deq_none" => Len(buffer) = 0
    /\ \A t \in Threads : pc[t] # "crashed"

\* A consumer stands between the test and the pop of the last item while the
\* other consumer and a producer wait for the lock.
C3_Witness ==
    /\ pc["cons1"] = "deq_pop"
    /\ Len(buffer) = 1
    /\ pc["cons2"] = "deq_lock"
    /\ pc["prod1"] = "enq_lock"

\* C4: a dequeue that finds the buffer empty goes on without waiting, returns
\* None, raises nothing and leaves the buffer empty.
C4_EmptyDequeue ==
    /\ [](\A t \in Threads :
            pc[t] \in {"deq_test", "deq_none", "deq_unlock"} => ENABLED DequeueStep(t))
    /\ [][\A t \in Threads :
            /\ (pc[t] = "deq_test" /\ Len(buffer) = 0 /\ pc'[t] # pc[t])
                  => (pc'[t] = "deq_none" /\ buffer' = <<>>)
            /\ (pc[t] = "deq_none" /\ pc'[t] # pc[t])
                  => (pc'[t] = "deq_unlock" /\ IsNone(ret'[t]) /\ buffer' = <<>>)
            /\ (pc[t] = "deq_unlock" /\ IsNone(ret[t]) /\ pc'[t] # pc[t])
                  => (pc'[t] = cont[t] /\ IsNone(ret'[t]) /\ buffer' = <<>>
                      /\ dequeued' = dequeued)
       ]_vars

\* A dequeue is about to return None although items were enqueued before.
C4_Witness ==
    \E t \in Threads :
        /\ pc[t] = "deq_unlock"
        /\ IsNone(ret[t])
        /\ Len(enqueued) > 0

\* The lifecycle of the specification, in order.
Lifecycle == <<"Not Shipped", "In-Transit", "Waiting to Offload", "Offloaded">>
Rank(status) == CHOOSE i \in 1..Len(Lifecycle) : Lifecycle[i] = status
OrderRefs == DOMAIN heap
OrderIds(refs) == [i \in 1..Len(refs) |-> heap[refs[i]].order_id]
SourceIds == [i \in 1..Len(ORDERS) |-> ORDERS[i].order_id]

\* Both threads have ended, every record is an order that is Offloaded and
\* counted, and the buffer is empty.
PipelineFinished ==
    /\ pc["G"] = "done"
    /\ pc["P"] = "done"
    /\ processed = total_orders
    /\ Len(heap) = Len(ORDERS)
    /\ \A o \in OrderRefs : heap[o].status = "Offloaded"
    /\ buffer = <<>>

\* C5: under fair scheduling, with total_orders the size of the dataset, both
\* threads eventually end, and then processed = total_orders, every order is
\* Offloaded and the buffer is empty.
C5_Terminates ==
    /\ <>[]PipelineFinished
    /\ []((pc["G"] = "done" /\ pc["P"] = "done") => PipelineFinished)

\* The run is over with all five orders delivered.
C5_Witness == PipelineFinished /\ processed = 5

\* C6: an order counted as processed has taken exactly the statuses Not
\* Shipped, In-Transit, Waiting to Offload, Offloaded, in that order, once
\* each; it is Offloaded when it is counted, and until then the statuses it
\* has taken are the first ones of that sequence.
C6_LifecycleVisited ==
    /\ \A i \in 1..Len(completed) :
          /\ visited[completed[i]] = Lifecycle
          /\ heap[completed[i]].status = "Offloaded"
    /\ \A o \in OrderRefs :
          /\ visited[o] # <<>>
          /\ IsPrefix(visited[o], Lifecycle)
          /\ heap[o].status = visited[o][Len(visited[o])]
    /\ processed = Len(completed)

\* Three orders are counted while a fourth is half way and a fifth is queued.
C6_Witness ==
    /\ Len(completed) = 3
    /\ Len(heap) = 5
    /\ visited[4] = <<"Not Shipped", "In-Transit", "Waiting to Offload">>
    /\ Len(buffer) = 1

\* C7: an order's status is always one of the four lifecycle values, and a
\* change of it moves it to the next value of the lifecycle.
C7_StatusForwardOnly ==
    /\ [](\A o \in OrderRefs : heap[o].status \in Range(Lifecycle))
    /\ [][\A o \in OrderRefs :
            heap'[o].status # heap[o].status
               => /\ heap'[o].status \in Range(Lifecycle)
                  /\ Rank(heap'[o].status) = Rank(heap[o].status) + 1
       ]_vars

\* One order is Offloaded, the next has moved one stage on and the rest wait.
C7_Witness ==
    /\ Len(heap) = 5
    /\ heap[1].status = "Offloaded"
    /\ heap[2].status = "In-Transit"
    /\ heap[3].status = "Not Shipped"

\* C8: the orders are counted as processed in the order in which they were
\* enqueued, which is the order of the dataset.
C8_CompletionOrder ==
    /\ IsPrefix(completed, enqueued)
    /\ IsPrefix(OrderIds(enqueued), SourceIds)
    /\ IsPrefix(OrderIds(completed), SourceIds)
    /\ pc["P"] = "done" => OrderIds(completed) = SourceIds

\* All five orders were counted.
C8_Witness == pc["P"] = "done" /\ Len(completed) = 5

\* C9: when the processor's dequeue returns None after is_empty() returned
\* False, the processor does not fail and counts nothing: it pauses and
\* retries.
C9_RetriesAfterLostRace ==
    /\ [](pc["P"] # "crashed")
    /\ [][(pc["P"] = "proc_picked" /\ IsNone(ret["P"]) /\ pc'["P"] # pc["P"])
            => (pc'["P"] = "proc_poll" /\ processed' = processed)]_vars

\* The transition function of the specification.
ReferenceSuccessor(status) ==
    CASE status = "Not Shipped"        -> "In-Transit"
      [] status = "In-Transit"         -> "Waiting to Offload"
      [] status = "Waiting to Offload" -> "Offloaded"
      [] status = "Offloaded"          -> NoStatus

\* C10: on each of the four statuses next_status returns the successor the
\* reference gives, None for Offloaded; two calls with the same status have
\* the same outcome; and a call changes nothing but the caller's record of it.
C10_NextStatus ==
    /\ [](\A i \in 1..Len(ns_log) :
            ns_log[i].current \in Range(Lifecycle)
               => ns_log[i].outcome = Return(ReferenceSuccessor(ns_log[i].current)))
    /\ [](\A i, j \in 1..Len(ns_log) :
            ns_log[i].current = ns_log[j].current
               => ns_log[i].outcome = ns_log[j].outcome)
    /\ [][ns_log' # ns_log
            => UNCHANGED <<buffer, lock, pc, heap, processed, source, total_orders>>]_vars

\* next_status was called on Offloaded, and twice on another status.
C10_Witness ==
    /\ Len(ns_log) = 3
    /\ ns_log[1].current = "Offloaded"
    /\ ns_log[1].outcome = Return(NoStatus)
    /\ ns_log[2].current = "Waiting to Offload"
    /\ ns_log[3].current = "Waiting to Offload"

\* The values of the driver that are none of the four statuses.
Unrecognized(s) == s \notin Range(Lifecycle)

\* C11 as stated: a call of next_status with a value outside the four
\* statuses raises UnknownStatusError.
C11_RaisesUnknownStatusError ==
    \A i \in 1..Len(ns_log) :
        Unrecognized(ns_log[i].current)
           => ns_log[i].outcome = Raise("UnknownStatusError")

\* C11, amended: a call of next_status with a string outside the four
\* statuses raises ValueError and returns no status.
C11_RaisesValueError ==
    \A i \in 1..Len(ns_log) :
        Unrecognized(ns_log[i].current)
           => /\ ns_log[i].outcome.kind = "raise"
              /\ ns_log[i].outcome = Raise("ValueError")

\* next_status was called on three strings that are not statuses.
C11_Witness ==
    /\ Len(ns_log) = 3
    /\ ns_log[1].current = "Delivered"
    /\ ns_log[2].current = "offloaded"
    /\ ns_log[3].current = ""
    /\ \A i \in 1..3 : ns_log[i].outcome.kind = "raise"

\* C12: processed is 0 until the processor counts an order, never leaves
\* 0..total_orders, and changes only in a step of the processor that adds 1
\* to it for the order in hand, which is Offloaded.
C12_ProcessedCounter ==
    /\ [](processed \in 0..total_orders)
    /\ [](completed = <<>> => processed = 0)
    /\ [][processed' # processed
            => /\ processed' = processed + 1
               /\ pc["P"] = "proc_while"
               /\ pc'["P"] = "proc_loop"
               /\ pc'["G"] = pc["G"]
               /\ heap[order.val].status = "Offloaded"
               /\ order.val \notin Range(completed)
               /\ completed' = Append(completed, order.val)
       ]_vars

\* The counter has reached total_orders.
C12_Witness == processed = total_orders /\ total_orders = 5 /\ pc["P"] = "proc_loop"

\* C13: with an empty source and total_orders = 0 nothing is ever enqueued,
\* dequeued or advanced, the processor never polls the buffer, processed stays
\* 0, and both threads end.
C13_EmptySource ==
    (source = <<>> /\ total_orders = 0)
       => /\ [](/\ enqueued = <<>> /\ dequeued = <<>> /\ buffer = <<>> /\ heap = <<>>
                /\ processed = 0
                /\ pc["G"] \in {"gen_loop", "done"}
                /\ pc["P"] \in {"proc_start", "proc_loop", "done"})
          /\ <>[](pc["G"] = "done" /\ pc["P"] = "done" /\ processed = 0)

\* Both threads have ended on the empty source.
C13_Witness ==
    /\ source = <<>> /\ total_orders = 0
    /\ pc["G"] = "done" /\ pc["P"] = "done"
    /\ processed = 0 /\ enqueued = <<>>

\* The record an order was built from.
RecordOf(o) == [order_id |-> heap[o].order_id, destination |-> heap[o].destination]
RecordsOf(refs) == [i \in 1..Len(refs) |-> RecordOf(refs[i])]
EnqueueLabels == {"enq_lock", "enq_insert", "enq_unlock"}

\* C14: the orders generate_orders has enqueued are, in order, the first
\* records of the source, one order for each; an order is Not Shipped while it
\* is being enqueued; and when the generator has ended the enqueued orders are
\* all the records of the source, with nothing enqueued after that.
C14_GeneratorEnqueues ==
    /\ [](/\ NoRepeats(enqueued)
          /\ Len(enqueued) <= idx /\ idx <= Len(enqueued) + 1
          /\ IsPrefix(RecordsOf(enqueued), source)
          /\ pc["G"] \in EnqueueLabels
                => /\ arg["G"] = idx /\ arg["G"] \notin Range(enqueued)
                   /\ RecordOf(arg["G"]) = source[idx]
                   /\ heap[arg["G"]].status = "Not Shipped"
          /\ pc["G"] = "done" => RecordsOf(enqueued) = source)
    /\ [][pc["G"] = "done" => (pc'["G"] = "done" /\ enqueued' = enqueued)]_vars

\* The generator has ended after enqueuing the five records of ORDERS.
C14_Witness ==
    /\ pc["G"] = "done"
    /\ Len(source) = 5
    /\ Len(enqueued) = 5

\* The places where a thread is suspended in time.sleep.
SleepLabels == {"gen_sleep", "proc_start", "proc_poll", "proc_work"}

\* C15: a thread suspended in a sleep does not hold the lock, which is held
\* only inside a Queue method; while the consumer sleeps the lock is free or
\* in the producer's hands, and each step of a producer's enqueue in progress
\* can be taken.
C15_NoLockAcrossSleep ==
    /\ \A t \in Threads : pc[t] \in SleepLabels => lock # t
    /\ \A t \in Threads : lock = t <=> pc[t] \in BufferSection
    /\ pc["P"] \in SleepLabels => lock \in {NoThread, "G"}
    /\ (pc["P"] \in SleepLabels /\ pc["G"] \in EnqueueLabels)
          => ENABLED EnqueueStep("G")

\* The producer inserts an order while the consumer sleeps between two stages
\* of another.
C15_Witness ==
    /\ pc["P"] = "proc_work"
    /\ pc["G"] = "enq_insert"
    /\ lock = "G"

\* The orders taken out of the buffer by the processor and not yet counted.
Popped == IF pc["P"] = "deq_unlock" /\ ~IsNone(ret["P"]) THEN {ret["P"].val} ELSE {}
InHand == (Range(dequeued) \cup Popped) \ Range(completed)

\* C16: at most one order is dequeued and not yet counted; while the processor
\* is polling or dequeuing, every order dequeued before is Offloaded and
\* counted.
C16_OneOrderAtATime ==
    /\ Cardinality(InHand) <= 1
    /\ pc["P"] \in {"proc_loop", "emp_lock", "emp_test", "emp_unlock", "proc_check",
                    "proc_poll", "deq_lock", "deq_test", "deq_pop", "deq_none"}
          => /\ Range(dequeued) = Range(completed)
             /\ \A o \in Range(dequeued) : heap[o].status = "Offloaded"
    /\ \A o \in InHand :
          pc["P"] \in {"deq_unlock", "proc_picked"} \/ (order = Value(o))

\* The processor dequeues the third order; the two before it are counted.
C16_Witness ==
    /\ pc["P"] = "deq_pop"
    /\ Len(completed) = 2
    /\ Len(buffer) = 2

\* Who holds order o: the producer until the order is in the list, the buffer
\* while it is in the list, the processor once it was popped.
WithProducer(o) == pc["G"] \in {"enq_lock", "enq_insert"} /\ arg["G"] = o
InBuffer(o) == o \in Range(buffer)
WithProcessor(o) == o \in Range(dequeued) \cup Popped
Holders(o) ==
    (IF WithProducer(o) THEN {"producer"} ELSE {})
       \cup (IF InBuffer(o) THEN {"buffer"} ELSE {})
       \cup (IF WithProcessor(o) THEN {"processor"} ELSE {})

\* C17: every order has exactly one holder; an order in the buffer is there
\* once and is Not Shipped; and an order dict changes only in a step of the
\* processor, on the order it has dequeued, never in a step of the producer.
C17_Ownership ==
    /\ [](/\ \A o \in OrderRefs : Cardinality(Holders(o)) = 1
          /\ NoRepeats(buffer)
          /\ \A o \in Range(buffer) : heap[o].status = "Not Shipped")
    /\ [][\A o \in OrderRefs :
            heap'[o] # heap[o]
               => /\ pc["P"] = "proc_while" /\ pc'["P"] = "proc_work"
                  /\ order = Value(o)
                  /\ o \in Range(dequeued)
                  /\ ~InBuffer(o)
                  /\ pc'["G"] = pc["G"]
       ]_vars

\* One order is with the processor and half way, one is in the buffer and one
\* is still with the producer.
C17_Witness ==
    /\ Holders(1) = {"processor"} /\ heap[1].status = "Waiting to Offload"
    /\ Holders(2) = {"buffer"}
    /\ Len(heap) = 3 /\ Holders(3) = {"producer"}

\* The orders of the generator among the enqueued ones.
GeneratedEnqueued == {o \in Range(enqueued) : RecordOf(o) \in Range(source)}

\* C18: when the processor has dequeued an order whose status is none of the
\* four, its next step ends the thread, with processed and the order
\* unchanged; from then on the processor does nothing: processed, the
\* dequeued orders and every order stay as they are; and the generator still
\* enqueues every record and ends.
C18_AbortsOnUnknownStatus ==
    /\ [][(pc["P"] = "proc_while" /\ Unrecognized(heap[order.val].status)
             /\ pc'["P"] # pc["P"])
            => /\ pc'["P"] = "crashed"
               /\ processed' = processed /\ completed' = completed
               /\ heap' = heap]_vars
    /\ [][pc["P"] = "crashed"
            => /\ pc'["P"] = "crashed"
               /\ processed' = processed /\ completed' = completed
               /\ dequeued' = dequeued
               /\ \A o \in OrderRefs : heap'[o] = heap[o]]_vars
    /\ [](pc["P"] = "proc_work" => ~Unrecognized(heap[order.val].status))
    /\ <>[](pc["G"] = "done" /\ Cardinality(GeneratedEnqueued) = Len(source))

\* The processor was ended by the foreign order after two orders, and the
\* generator has enqueued all five records.
C18_Witness ==
    /\ pc["P"] = "crashed"
    /\ Unrecognized(heap[order.val].status)
    /\ processed = 2
    /\ pc["G"] = "done"
    /\ Cardinality(GeneratedEnqueued) = 5
    /\ Len(buffer) = 3

\* The places of process_orders while it polls the buffer.
PollLabels == {"proc_loop", "emp_lock", "emp_test", "emp_unlock", "proc_check", "proc_poll"}

\* C19: the processor has ended only if total_orders orders were enqueued;
\* when the source holds fewer records than total_orders, the processor never
\* ends: it comes to process every order the generator enqueued and from then
\* on polls the empty buffer for ever, with processed < total_orders.
C19_StallsOnShortSource ==
    /\ [](pc["P"] = "done" => Len(enqueued) >= total_orders)
    /\ (Len(source) < total_orders)
          => /\ [](pc["P"] # "done" /\ processed < total_orders)
             /\ <>[](/\ pc["G"] = "done"
                     /\ RecordsOf(completed) = source
                     /\ processed = Len(source)
                     /\ buffer = <<>>
                     /\ pc["P"] \in PollLabels)
             /\ []<>(pc["P"] = "proc_poll")

\* The two orders of a short source are processed and the processor sleeps
\* after finding the buffer empty, one order short of total_orders.
C19_Witness ==
    /\ Len(source) = 2 /\ total_orders = 3
    /\ pc["G"] = "done"
    /\ processed = 2
    /\ buffer = <<>>
    /\ pc["P"] = "proc_poll"

\* C20: with the processor as the only consumer, the buffer is not empty
\* from the moment is_empty() returned False until the processor's dequeue
\* pops, so that dequeue never takes its return None branch and the processor
\* never uses None as an order.
C20_DequeueReturnsItem ==
    /\ (pc["P"] = "proc_check" /\ ~ret["P"].val) => Len(buffer) > 0
    /\ pc["P"] \in {"deq_lock", "deq_test", "deq_pop"} => Len(buffer) > 0
    /\ pc["P"] \in {"deq_unlock", "proc_picked"} => ~IsNone(ret["P"])
    /\ pc["P"] \notin {"deq_none", "crashed"}
    /\ pc["P"] \in {"proc_while", "proc_work"} => ~IsNone(order)

\* The processor is about to pop the only item while the producer waits for
\* the lock with the next order.
C20_Witness ==
    /\ pc["P"] = "deq_pop"
    /\ Len(buffer) = 1
    /\ pc["G"] = "enq_lock"

====
